---- MODULE Spec2Model ----
(***************************************************************************)
(* explain-with-cats: the edge proxy (src/api/generate.ts) that re-emits   *)
(* the model's chunks as server-sent events, and the browser client        *)
(* (src/index.tsx) that reads the event stream and assembles slides.       *)
(*                                                                         *)
(* Text on the wire is a sequence of tokens, each a pair <<kind, id>>:     *)
(* the two halves "da" and "ta: " of the "data: " prefix, one "\n"         *)
(* character, and the two halves of the JSON text of a chunk.  A           *)
(* reader.read() result is any non-empty prefix of the tokens in flight,   *)
(* so a read may end inside the prefix, inside a payload or inside the     *)
(* "\n\n" delimiter.  Caption text is a sequence of characters.            *)
(***************************************************************************)
EXTENDS Integers, Sequences, FiniteSets, TLC

\* ------------------------------------------------------------- bounds
\* Invocations of generate() that can overlap.
MaxRuns == 2
\* Events the server sends, in total, while invocations may overlap (Spec).
MaxOverlapEvents == 2
\* Events the server sends, in total, when invocations follow each other
\* (SpecSolo).
MaxEvents == 3
\* Chunks the model stream yields for one request to the proxy.
MaxChunks == 3
\* Click listeners of download buttons that are suspended at once.
MaxDownloads == 1

Runs == 1..MaxRuns

\* ------------------------------------------------- parts and chunks
\* A part of a candidate's content: a text fragment, inline image data, or
\* neither (both fields empty).
PartIds == {"tA", "tB", "iX", "iY"}

PartText(p) ==
    CASE p = "tA" -> <<"a">>
      [] p = "tB" -> <<"b">>
      [] OTHER -> <<>>

PartData(p) ==
    CASE p = "iX" -> <<"X">>
      [] p = "iY" -> <<"Y">>
      [] OTHER -> <<>>

Cand(parts) == [hasContent |-> TRUE, parts |-> parts]
NoContent == [hasContent |-> FALSE, parts |-> <<>>]

\* The chunks the model stream can yield, by id.
ChunkIds == {"tA", "iX", "tAiX", "iYtB", "tBnc", "none"}

\* chunk.candidates of a chunk; hasCandidates is FALSE when the chunk
\* carries no candidates field.
Chunk(c) ==
    CASE c = "tA"   -> [hasCandidates |-> TRUE, candidates |-> <<Cand(<<"tA">>)>>]
      [] c = "iX"   -> [hasCandidates |-> TRUE, candidates |-> <<Cand(<<"iX">>)>>]
      [] c = "tAiX" -> [hasCandidates |-> TRUE, candidates |-> <<Cand(<<"tA", "iX">>)>>]
      [] c = "iYtB" -> [hasCandidates |-> TRUE, candidates |-> <<Cand(<<"iY", "tB">>)>>]
      [] c = "tBnc" -> [hasCandidates |-> TRUE, candidates |-> <<Cand(<<"tB">>), NoContent>>]
      [] OTHER      -> [hasCandidates |-> FALSE, candidates |-> <<>>]

\* ------------------------------------------------------ wire text
\* 'data: ', as its two halves.
DATA == << <<"da", "">>, <<"ta: ", "">> >>
NL == <<"\n", "">>

\* JSON.stringify(chunk): the JSON text, as its two halves.
JSON_stringify(c) == << <<"{", c>>, <<"}", c>> >>

RECURSIVE trimLeft(_)
trimLeft(s) ==
    IF s # <<>> /\ Head(s) = NL THEN trimLeft(Tail(s)) ELSE s

RECURSIVE trimRight(_)
trimRight(s) ==
    IF s # <<>> /\ s[Len(s)] = NL THEN trimRight(SubSeq(s, 1, Len(s) - 1)) ELSE s

\* JSON.parse(jsonString): white space around the value is skipped; the
\* text must be one complete JSON value, otherwise a SyntaxError is thrown.
JSON_parse(s) ==
    LET t == trimRight(trimLeft(s))
    IN  IF /\ Len(t) = 2
           /\ t[1][1] = "{"
           /\ t[2][1] = "}"
           /\ t[1][2] = t[2][2]
           /\ t[1][2] \in ChunkIds
        THEN [ok |-> TRUE, chunk |-> t[1][2]]
        ELSE [ok |-> FALSE, chunk |-> "SyntaxError"]

\* `data: ${chunkJson}\n\n`
sse(c) == DATA \o JSON_stringify(c) \o <<NL, NL>>

\* controller.enqueue(encoder.encode(...)) on the response body so far.
enqueue_swapped(q, c) == sse(c) \o q
enqueue(q, c) == q \o sse(c)

\* chunkString.split('\n\n'): cut at each "\n\n", scanning left to right.
RECURSIVE split(_, _)
split(s, cur) ==
    IF s = <<>> THEN <<cur>>
    ELSE IF Len(s) >= 2 /\ s[1] = NL /\ s[2] = NL
         THEN <<cur>> \o split(SubSeq(s, 3, Len(s)), <<>>)
         ELSE split(Tail(s), Append(cur, Head(s)))

startsWithData(line) == Len(line) >= 2 /\ SubSeq(line, 1, 2) = DATA

\* line.replace('data: ', ''): the first occurrence is removed.
RECURSIVE replaceData(_)
replaceData(line) ==
    IF line = <<>> THEN <<>>
    ELSE IF startsWithData(line) THEN SubSeq(line, 3, Len(line))
         ELSE <<Head(line)>> \o replaceData(Tail(line))

\* The lines of one read: split on blank lines, keep those that start
\* with 'data: '.
linesOf(chunkString) == SelectSeq(split(chunkString, <<>>), startsWithData)

\* ------------------------------------------ the loops over a chunk
\* The parts the two for-loops visit, in order; "THROW" marks the point
\* where iterating throws a TypeError (chunk.candidates undefined, or
\* candidate.content undefined), which leaves both loops.
THROW == "THROW"

RECURSIVE itemsOfCandidates(_)
itemsOfCandidates(cs) ==
    IF cs = <<>> THEN <<>>
    ELSE IF ~Head(cs).hasContent THEN <<THROW>>
         ELSE Head(cs).parts \o itemsOfCandidates(Tail(cs))

itemsOfChunk(c) ==
    IF ~Chunk(c).hasCandidates THEN <<THROW>>
    ELSE itemsOfCandidates(Chunk(c).candidates)

\* ------------------------------------------------- slide assembly
NoImg == <<>>

\* text += part.text
addText_overwrite(t, p) == PartText(p)
addText(t, p) == t \o PartText(p)

\* img = document.createElement('img'); img.src = `data:image/png;base64,` + data
makeImg(p) == <<"data:image/png;base64,">> \o PartData(p)

\* The part's effect on (text, img): a truthy part.text wins, otherwise
\* truthy inline data replaces the held image, otherwise nothing.
textAfter(t, p) == IF PartText(p) # <<>> THEN addText(t, p) ELSE t
imgAfter(i, p) ==
    IF PartText(p) # <<>> THEN i
    ELSE IF PartData(p) # <<>> THEN makeImg(p) ELSE i

\* if (text && img)
slideReady_either(t, i) == t # <<>> \/ i # NoImg
slideReady(t, i) == t # <<>> /\ i # NoImg

\* marked.parse(text): the rendered caption.
marked_parse(t) == <<"<p>">> \o t \o <<"</p>">>

\* addSlide(text, image): the slideshow after slideshow.append(slide).
addSlide_prepend(show, t, i) == <<[caption |-> marked_parse(t), image |-> i]>> \o show
addSlide(show, t, i) == Append(show, [caption |-> marked_parse(t), image |-> i])

\* ------------------------------------------------------ responses
Msg(s) == <<s>>

Resp(status, statusText, kind, raw, msg) ==
    [status |-> status, statusText |-> statusText, kind |-> kind,
     raw |-> raw, msg |-> msg]

NoResponse == Resp(0, "", "none", "", "")

\* What the proxy answers: new Response(body, {status, headers}) gives no
\* statusText, so it is the empty string.
Resp405 == Resp(405, "", "text", "Method Not Allowed", "")
Resp400 == Resp(400, "", "text", "Missing message in request body", "")
Resp500(m) == Resp(500, "", "json", "", m)
RespStream == Resp(200, "", "stream", "", "")

\* response.ok
response_ok(resp) == resp.status >= 200 /\ resp.status <= 299

\* What /api/generate can answer to the client's fetch: the proxy's own
\* answers, and answers of the hosting platform in front of it.
Resp204 == Resp(204, "No Content", "none", "", "")
Resp502 == Resp(502, "Bad Gateway", "text", "", "")
Responses ==
    {RespStream, Resp204, Resp405, Resp400, Resp500("boom"), Resp500(""), Resp502}

\* await response.json(): reads the body to its end (a null body is not
\* read), then parses it.
Response_json(resp) ==
    [bodyUsed |-> resp.kind # "none", threw |-> resp.kind # "json", msg |-> resp.msg]

\* await response.text(): rejects with a TypeError when the body has
\* already been read.
BodyUsedError == "TypeError: body stream already read"
Response_text(resp, bodyUsed) ==
    IF bodyUsed THEN [threw |-> TRUE, value |-> BodyUsedError]
    ELSE [threw |-> FALSE, value |-> resp.raw]

defaultMessage(resp) ==
    <<"Request failed with status ", ToString(resp.status), " - ", resp.statusText>>

\* errorMessage = err.error?.message || errorMessage, for a body that
\* parsed as JSON.
errorMessageOfJson(resp) ==
    LET j == Response_json(resp)
    IN  IF j.msg # "" THEN Msg(j.msg) ELSE defaultMessage(resp)

\* The message of the Error that leaves the catch of response.json():
\* the TypeError of response.text() when it rejects, else
\* errorMessage = text || errorMessage.
errorMessageOfText(resp) ==
    LET t == Response_text(resp, Response_json(resp).bodyUsed)
    IN  IF t.threw THEN Msg(t.value)
        ELSE IF t.value # "" THEN Msg(t.value) ELSE defaultMessage(resp)

\* showError(message): errorEl.textContent
errorTextOf(m) == <<"Something went wrong: ">> \o m

\* ------------------------------------------------------------ state
VARIABLES
    inputValue,       \* userInput.value
    inputDisabled,    \* userInput.disabled
    modelOutput,      \* number of user turns in #output
    slideshow,        \* the slides in #slideshow, in document order
    slideshowHidden,  \* #slideshow has the hidden attribute
    actions,          \* number of download buttons in #actions
    errorText,        \* errorEl text, <<>> when empty
    errorHidden,      \* #error has the hidden attribute
    pc,               \* per generate() invocation: where it is suspended
    response,         \* per invocation: the fetch response
    text,             \* per invocation: let text
    img,              \* per invocation: let img
    lines,            \* per invocation: lines of the current read still to visit
    work,             \* per invocation: parts of the current chunk still to visit
    buffer,           \* per invocation: response body text not yet read
    closed,           \* per invocation: the server closed the body
    eventsLeft,       \* events the server may still send
    sent,             \* history: chunks the server sent, per invocation
    log,              \* history: parts processed, per invocation
    emitted,          \* history: slides appended, per invocation
    consoleErrors,    \* history: console.error calls of the stream loop
    jobs,             \* click listeners of download buttons that are suspended
    p_pc,             \* proxy handler: where it is
    p_req,            \* proxy handler: the request
    p_resp,           \* proxy handler: the Response returned
    p_body,           \* proxy handler: text enqueued on the response stream
    p_yielded,        \* history: chunks the model stream yielded
    p_modelCalls,     \* history: calls of generateContentStream
    p_thrown          \* history: what the handler's try block threw

domVars == <<inputValue, inputDisabled, modelOutput, slideshow, slideshowHidden,
             actions, errorText, errorHidden>>
runVars == <<pc, response, text, img, lines, work>>
netVars == <<buffer, closed, eventsLeft>>
histVars == <<sent, log, emitted, consoleErrors>>
pdfVars == <<jobs>>
proxyVars == <<p_pc, p_req, p_resp, p_body, p_yielded, p_modelCalls, p_thrown>>
vars == <<domVars, runVars, netVars, histVars, pdfVars, proxyVars>>

InputTexts == {"cats"}
Examples == {"Explain how neural networks work."}

NoRequest == [method |-> "", body |-> ""]

InitClient(events) ==
    /\ inputValue = ""
    /\ inputDisabled = FALSE
    /\ modelOutput = 0
    /\ slideshow = <<>>
    /\ slideshowHidden = TRUE
    /\ actions = 0
    /\ errorText = <<>>
    /\ errorHidden = TRUE
    /\ pc = [r \in Runs |-> "idle"]
    /\ response = [r \in Runs |-> NoResponse]
    /\ text = [r \in Runs |-> <<>>]
    /\ img = [r \in Runs |-> NoImg]
    /\ lines = [r \in Runs |-> <<>>]
    /\ work = [r \in Runs |-> <<>>]
    /\ buffer = [r \in Runs |-> <<>>]
    /\ closed = [r \in Runs |-> FALSE]
    /\ eventsLeft = events
    /\ sent = [r \in Runs |-> <<>>]
    /\ log = [r \in Runs |-> <<>>]
    /\ emitted = [r \in Runs |-> <<>>]
    /\ consoleErrors = [r \in Runs |-> 0]
    /\ jobs = <<>>

InitProxy ==
    /\ p_pc = "idle"
    /\ p_req = NoRequest
    /\ p_resp = NoResponse
    /\ p_body = <<>>
    /\ p_yielded = <<>>
    /\ p_modelCalls = 0
    /\ p_thrown = "none"

Init == InitClient(MaxOverlapEvents) /\ InitProxy
InitSolo == InitClient(MaxEvents) /\ InitProxy

\* ------------------------------------------------- client: generate()
Free(r) == pc[r] = "idle"
Running(r) == ~Free(r)

\* The record of the next generate() invocation: the lowest one not in use.
NextRun == CHOOSE r \in Runs : Free(r) /\ \A q \in Runs : Free(q) => r <= q

\* clearUI(): the buttons removed from #actions keep their suspended
\* listeners.
clearUI ==
    /\ modelOutput' = 0
    /\ slideshow' = <<>>
    /\ actions' = 0
    /\ jobs' = [j \in DOMAIN jobs |-> [jobs[j] EXCEPT !.attached = FALSE]]
    /\ errorText' = <<>>
    /\ slideshowHidden' = TRUE
    /\ errorHidden' = TRUE

\* generate(message) up to its first await: setLoading(true); clearUI();
\* marked.parse(message) is started.
generate(r) ==
    /\ inputDisabled' = TRUE
    /\ clearUI
    /\ pc' = [pc EXCEPT ![r] = "parse"]
    /\ response' = [response EXCEPT ![r] = NoResponse]
    /\ text' = [text EXCEPT ![r] = <<>>]
    /\ img' = [img EXCEPT ![r] = NoImg]
    /\ lines' = [lines EXCEPT ![r] = <<>>]
    /\ work' = [work EXCEPT ![r] = <<>>]
    /\ buffer' = [buffer EXCEPT ![r] = <<>>]
    /\ closed' = [closed EXCEPT ![r] = FALSE]
    /\ sent' = [sent EXCEPT ![r] = <<>>]
    /\ log' = [log EXCEPT ![r] = <<>>]
    /\ emitted' = [emitted EXCEPT ![r] = <<>>]
    /\ consoleErrors' = [consoleErrors EXCEPT ![r] = 0]
    /\ UNCHANGED <<eventsLeft, proxyVars>>

\* The user edits the textarea; a disabled textarea takes no input.
TypeInput(v) ==
    /\ ~inputDisabled
    /\ v # inputValue
    /\ inputValue' = v
    /\ UNCHANGED <<inputDisabled, modelOutput, slideshow, slideshowHidden, actions,
                   errorText, errorHidden, runVars, netVars, histVars, pdfVars, proxyVars>>

\* keydown listener, Enter without Shift: a disabled textarea has no
\* focus and gets no key events.
KeydownEnter ==
    /\ ~inputDisabled
    /\ inputValue # ""
    /\ \E r \in Runs : Free(r)
    /\ generate(NextRun)
    /\ UNCHANGED inputValue

\* click listener of an example item.
ExampleClick(e) ==
    /\ \E r \in Runs : Free(r)
    /\ inputValue' = e
    /\ generate(NextRun)

\* generate() returns: its locals, the response body and the histories of
\* the invocation are gone.
return(r) ==
    /\ pc' = [pc EXCEPT ![r] = "idle"]
    /\ response' = [response EXCEPT ![r] = NoResponse]
    /\ text' = [text EXCEPT ![r] = <<>>]
    /\ img' = [img EXCEPT ![r] = NoImg]
    /\ lines' = [lines EXCEPT ![r] = <<>>]
    /\ work' = [work EXCEPT ![r] = <<>>]
    /\ buffer' = [buffer EXCEPT ![r] = <<>>]
    /\ closed' = [closed EXCEPT ![r] = FALSE]
    /\ sent' = [sent EXCEPT ![r] = <<>>]
    /\ log' = [log EXCEPT ![r] = <<>>]
    /\ emitted' = [emitted EXCEPT ![r] = <<>>]
    /\ consoleErrors' = [consoleErrors EXCEPT ![r] = 0]

\* catch (e) { showError(e.message) } finally { setLoading(false) }
fail(r, m) ==
    /\ errorText' = errorTextOf(m)
    /\ errorHidden' = FALSE
    /\ inputDisabled' = FALSE
    /\ return(r)
    /\ UNCHANGED <<inputValue, modelOutput, slideshow, slideshowHidden, actions,
                   eventsLeft, pdfVars, proxyVars>>

\* marked.parse(message) resolved: the user turn is shown, the input is
\* emptied and the fetch is sent.
AfterParse(r) ==
    /\ pc[r] = "parse"
    /\ modelOutput' = modelOutput + 1
    /\ inputValue' = ""
    /\ pc' = [pc EXCEPT ![r] = "fetch"]
    /\ UNCHANGED <<inputDisabled, slideshow, slideshowHidden, actions, errorText,
                   errorHidden, response, text, img, lines, work, netVars,
                   histVars, pdfVars, proxyVars>>

\* fetch resolved with resp.  A response that is not ok enters the error
\* block and awaits response.json(); one without a body throws; otherwise
\* the reader is taken and the first read is awaited.
FetchResolve(r, resp) ==
    /\ pc[r] = "fetch"
    /\ IF ~response_ok(resp)
       THEN /\ pc' = [pc EXCEPT ![r] = "json"]
            /\ response' = [response EXCEPT ![r] = resp]
            /\ UNCHANGED <<domVars, text, img, lines, work, netVars, histVars,
                           pdfVars, proxyVars>>
       ELSE IF resp.kind = "none"
            THEN fail(r, Msg("Response body is empty."))
            ELSE /\ pc' = [pc EXCEPT ![r] = "read"]
                 /\ response' = [response EXCEPT ![r] = resp]
                 /\ UNCHANGED <<domVars, text, img, lines, work, netVars,
                                histVars, pdfVars, proxyVars>>

\* response.json() settled: a body that parsed gives the message that is
\* thrown and shown; otherwise the catch awaits response.text().
ErrorBlock(r) ==
    /\ pc[r] = "json"
    /\ IF ~Response_json(response[r]).threw
       THEN fail(r, errorMessageOfJson(response[r]))
       ELSE /\ pc' = [pc EXCEPT ![r] = "text"]
            /\ UNCHANGED <<domVars, response, text, img, lines, work, netVars,
                           histVars, pdfVars, proxyVars>>

\* response.text() settled: its rejection, or the message made of the text,
\* is thrown and shown.
ErrorText(r) ==
    /\ pc[r] = "text"
    /\ fail(r, errorMessageOfText(response[r]))

\* fetch rejected (no connection).
FetchReject(r) ==
    /\ pc[r] = "fetch"
    /\ fail(r, Msg("Failed to fetch"))

\* The server side of a streaming response, seen from the client: one more
\* event arrives in the body.  (What arrives while the client is between
\* two reads is only seen at the next read, so arrivals are taken there.)
ServerEmit(r, c) ==
    /\ pc[r] = "read"
    /\ ~closed[r]
    /\ eventsLeft > 0
    /\ buffer' = [buffer EXCEPT ![r] = enqueue(buffer[r], c)]
    /\ eventsLeft' = eventsLeft - 1
    /\ sent' = [sent EXCEPT ![r] = Append(sent[r], c)]
    /\ UNCHANGED <<domVars, runVars, closed, log, emitted, consoleErrors, pdfVars, proxyVars>>

\* controller.close() reaches the client.
ServerClose(r) ==
    /\ pc[r] = "read"
    /\ ~closed[r]
    /\ closed' = [closed EXCEPT ![r] = TRUE]
    /\ UNCHANGED <<domVars, runVars, buffer, eventsLeft, histVars, pdfVars, proxyVars>>

\* Where the stream loop is next: in the loops over the chunk while it has
\* parts left, else at the next line, else past the last line, awaiting
\* the next reader.read().
resume(linesLeft, workLeft) ==
    IF workLeft # <<>> THEN "part"
    ELSE IF linesLeft # <<>> THEN "line" ELSE "read"

\* reader.read() resolved with the first k tokens in flight: decode,
\* split, filter.
ReadValue(r, k) ==
    /\ pc[r] = "read"
    /\ k \in 1..Len(buffer[r])
    /\ lines' = [lines EXCEPT ![r] = linesOf(SubSeq(buffer[r], 1, k))]
    /\ buffer' = [buffer EXCEPT ![r] = SubSeq(buffer[r], k + 1, Len(buffer[r]))]
    /\ pc' = [pc EXCEPT ![r] = resume(lines'[r], <<>>)]
    /\ UNCHANGED <<domVars, response, text, img, work, closed, eventsLeft,
                   histVars, pdfVars, proxyVars>>

\* reader.read() resolved with done: the download button, then finally.
ReadDone(r) ==
    /\ pc[r] = "read"
    /\ buffer[r] = <<>>
    /\ closed[r]
    /\ actions' = IF Len(slideshow) > 0 THEN actions + 1 ELSE actions
    /\ inputDisabled' = FALSE
    /\ return(r)
    /\ UNCHANGED <<inputValue, modelOutput, slideshow, slideshowHidden, errorText,
                   errorHidden, eventsLeft, pdfVars, proxyVars>>

\* reader.read() rejected: the body stream failed.
ReadReject(r) ==
    /\ pc[r] = "read"
    /\ fail(r, Msg("network error"))

\* catch (e) { console.error(...) } inside the loop over the lines: the
\* error is logged and the loop goes on with the lines that are left.
caught_rethrow(r, rest) == fail(r, Msg("Error parsing stream chunk"))
caught(r, rest) ==
    /\ consoleErrors' = [consoleErrors EXCEPT ![r] = @ + 1]
    /\ lines' = [lines EXCEPT ![r] = rest]
    /\ work' = [work EXCEPT ![r] = <<>>]
    /\ pc' = [pc EXCEPT ![r] = resume(rest, <<>>)]
    /\ UNCHANGED <<domVars, response, text, img, netVars, sent, log, emitted,
                   pdfVars, proxyVars>>

\* for (const line of lines): the line's payload is parsed; a SyntaxError
\* goes to the catch of the line.
NextLine(r) ==
    /\ pc[r] = "line"
    /\ lines[r] # <<>>
    /\ LET j == JSON_parse(replaceData(Head(lines[r])))
           rest == Tail(lines[r])
       IN  IF j.ok
           THEN /\ lines' = [lines EXCEPT ![r] = rest]
                /\ work' = [work EXCEPT ![r] = itemsOfChunk(j.chunk)]
                /\ pc' = [pc EXCEPT ![r] = resume(rest, itemsOfChunk(j.chunk))]
                /\ UNCHANGED <<domVars, response, text, img, netVars, histVars,
                               pdfVars, proxyVars>>
           ELSE caught(r, rest)

\* One turn of the loops over candidates and parts: a TypeError goes to
\* the catch of the line; a part updates text or img, and addSlide is
\* awaited when both are set.
NextPart(r) ==
    /\ pc[r] = "part"
    /\ work[r] # <<>>
    /\ IF Head(work[r]) = THROW
       THEN caught(r, lines[r])
       ELSE LET p == Head(work[r])
                t == textAfter(text[r], p)
                i == imgAfter(img[r], p)
            IN  /\ text' = [text EXCEPT ![r] = t]
                /\ img' = [img EXCEPT ![r] = i]
                /\ log' = [log EXCEPT ![r] = Append(log[r], p)]
                /\ work' = [work EXCEPT ![r] = Tail(work[r])]
                /\ pc' = [pc EXCEPT ![r] =
                             IF slideReady(t, i) THEN "slide"
                             ELSE resume(lines[r], Tail(work[r]))]
                /\ UNCHANGED <<domVars, response, lines, netVars, sent, emitted,
                               consoleErrors, pdfVars, proxyVars>>

\* Inside addSlide, marked.parse(text) resolved: the caption is set and the
\* slide is appended; generate() still awaits addSlide's promise.
AddSlideAppend(r) ==
    /\ pc[r] = "slide"
    /\ slideshow' = addSlide(slideshow, text[r], img[r])
    /\ emitted' = [emitted EXCEPT ![r] = Append(emitted[r], slideshow'[Len(slideshow')])]
    /\ pc' = [pc EXCEPT ![r] = "added"]
    /\ UNCHANGED <<inputValue, inputDisabled, modelOutput, slideshowHidden, actions,
                   errorText, errorHidden, response, text, img, lines, work,
                   netVars, sent, log, consoleErrors, pdfVars, proxyVars>>

\* await addSlide(text, img) resolved: the slideshow is shown, text and
\* img are reset.
AddSlideDone(r) ==
    /\ pc[r] = "added"
    /\ slideshowHidden' = FALSE
    /\ text' = [text EXCEPT ![r] = <<>>]
    /\ img' = [img EXCEPT ![r] = NoImg]
    /\ pc' = [pc EXCEPT ![r] = resume(lines[r], work[r])]
    /\ UNCHANGED <<inputValue, inputDisabled, modelOutput, slideshow, actions,
                   errorText, errorHidden, response, lines, work, netVars,
                   histVars, pdfVars, proxyVars>>

\* ------------------------------------ client: the download button
\* The suspended click listener of a download button: whether the button
\* is still in #actions, the slides found by querySelectorAll, how many of
\* them are on a page of the document, and what the listener awaits: an
\* html2canvas ("canvas"), or downloadSlidesAsPDF() that has saved the file
\* of `pages` pages ("returned") or has thrown ("threw").
Job(attached, pages, at) ==
    [attached |-> attached, pages |-> pages, done |-> 0, at |-> at]

\* A button is disabled while its listener is suspended.
enabledButtons == actions - Cardinality({j \in DOMAIN jobs : jobs[j].attached})

without(js, j) == SubSeq(js, 1, j - 1) \o SubSeq(js, j + 1, Len(js))

\* Click on a download button that is not disabled: the button is
\* disabled and downloadSlidesAsPDF() runs to its first await, the first
\* html2canvas, unless it throws before that.
DownloadClick(outcome) ==
    /\ Len(jobs) < MaxDownloads
    /\ enabledButtons > 0
    /\ jobs' = Append(jobs, Job(TRUE, Len(slideshow),
                                IF outcome = "threw" THEN "threw"
                                ELSE IF Len(slideshow) = 0 THEN "returned"
                                ELSE "canvas"))
    /\ UNCHANGED <<domVars, runVars, netVars, histVars, proxyVars>>

\* html2canvas(slide) resolved: the slide is put on its page; after the
\* last slide doc.save() writes the file and downloadSlidesAsPDF returns.
html2canvasResolve(j) ==
    /\ j \in DOMAIN jobs
    /\ jobs[j].at = "canvas"
    /\ jobs' = [jobs EXCEPT ![j].done = @ + 1,
                            ![j].at = IF jobs[j].done + 1 = jobs[j].pages
                                      THEN "returned" ELSE "canvas"]
    /\ UNCHANGED <<domVars, runVars, netVars, histVars, proxyVars>>

\* html2canvas(slide), or what follows it for the slide, threw.
html2canvasReject(j) ==
    /\ j \in DOMAIN jobs
    /\ jobs[j].at = "canvas"
    /\ jobs' = [jobs EXCEPT ![j].at = "threw"]
    /\ UNCHANGED <<domVars, runVars, netVars, histVars, proxyVars>>

\* await downloadSlidesAsPDF() settled in the listener: a rejection is
\* shown by showError; finally the button is enabled again.
DownloadSettle(j) ==
    /\ j \in DOMAIN jobs
    /\ jobs[j].at \in {"returned", "threw"}
    /\ jobs' = without(jobs, j)
    /\ IF jobs[j].at = "threw"
       THEN /\ errorText' = errorTextOf(Msg("Failed to generate PDF: ") \o Msg("canvas error"))
            /\ errorHidden' = FALSE
       ELSE UNCHANGED <<errorText, errorHidden>>
    /\ UNCHANGED <<inputValue, inputDisabled, modelOutput, slideshow, slideshowHidden,
                   actions, runVars, netVars, histVars, proxyVars>>

clientVars == <<domVars, runVars, netVars, histVars, pdfVars>>

\* --------------------------------------------------- proxy: handler()
Methods == {"GET", "POST"}
\* Request bodies: not JSON; the JSON value null; an object without a
\* message; an object with an empty message; an object with a message.
Bodies == {"invalid", "null", "nomsg", "empty", "msg"}

\* if (!message)
missingMessage_never(body) == FALSE
missingMessage(body) == body \in {"nomsg", "empty"}

\* error instanceof Error ? error.message : 'An unknown error occurred'
errorMessage(thrown) ==
    CASE thrown = "SyntaxError" -> "Unexpected token in JSON"
      [] thrown = "TypeError" -> "Cannot destructure property 'message' of null"
      [] thrown = "ApiError" -> "API key not valid"
      [] OTHER -> "An unknown error occurred"

\* A request arrives (the handler keeps nothing between requests): any
\* method but POST is answered 405 at once, otherwise req.json() is awaited.
Receive(m, b) ==
    /\ p_pc \in {"idle", "done", "closed", "errored"}
    /\ p_req' = [method |-> m, body |-> b]
    /\ p_body' = <<>>
    /\ p_yielded' = <<>>
    /\ p_modelCalls' = 0
    /\ p_thrown' = "none"
    /\ IF m # "POST"
       THEN p_resp' = Resp405 /\ p_pc' = "done"
       ELSE p_resp' = NoResponse /\ p_pc' = "json"
    /\ UNCHANGED clientVars

\* req.json() settled and the message was taken from it: a throw is
\* answered 500 by the catch, a missing message 400, otherwise
\* generateContentStream is called and awaited.
BodyRead ==
    /\ p_pc = "json"
    /\ IF p_req.body \in {"invalid", "null"}
       THEN /\ p_thrown' = (IF p_req.body = "invalid" THEN "SyntaxError" ELSE "TypeError")
            /\ p_resp' = Resp500(errorMessage(p_thrown'))
            /\ p_pc' = "done"
            /\ UNCHANGED p_modelCalls
       ELSE IF missingMessage(p_req.body)
            THEN /\ p_resp' = Resp400
                 /\ p_pc' = "done"
                 /\ UNCHANGED <<p_modelCalls, p_thrown>>
            ELSE /\ p_modelCalls' = p_modelCalls + 1
                 /\ p_pc' = "model"
                 /\ UNCHANGED <<p_resp, p_thrown>>
    /\ UNCHANGED <<p_req, p_body, p_yielded, clientVars>>

\* generateContentStream settled: with the stream, and the streaming
\* Response (status 200) is returned; or with a rejection, an Error or some
\* other value, answered 500 by the catch.
ModelStart(outcome) ==
    /\ p_pc = "model"
    /\ IF outcome = "stream"
       THEN /\ p_resp' = RespStream
            /\ p_pc' = "streaming"
            /\ UNCHANGED p_thrown
       ELSE /\ p_thrown' = outcome
            /\ p_resp' = Resp500(errorMessage(outcome))
            /\ p_pc' = "done"
    /\ UNCHANGED <<p_req, p_body, p_yielded, p_modelCalls, clientVars>>

\* for await (const chunk of result): one chunk is enqueued as an event.
ModelYield(c) ==
    /\ p_pc = "streaming"
    /\ Len(p_yielded) < MaxChunks
    /\ p_body' = enqueue(p_body, c)
    /\ p_yielded' = Append(p_yielded, c)
    /\ UNCHANGED <<p_pc, p_req, p_resp, p_modelCalls, p_thrown, clientVars>>

\* The model stream ended: controller.close().
ModelFinish ==
    /\ p_pc = "streaming"
    /\ p_pc' = "closed"
    /\ UNCHANGED <<p_req, p_resp, p_body, p_yielded, p_modelCalls, p_thrown,
                   clientVars>>

\* The model stream threw inside start(): the response stream is errored.
ModelThrow ==
    /\ p_pc = "streaming"
    /\ p_pc' = "errored"
    /\ p_thrown' = "ApiError"
    /\ UNCHANGED <<p_req, p_resp, p_body, p_yielded, p_modelCalls, clientVars>>

Next ==
    \/ \E v \in InputTexts : TypeInput(v)
    \/ KeydownEnter
    \/ \E e \in Examples : ExampleClick(e)
    \/ \E r \in Runs : AfterParse(r)
    \/ \E r \in Runs : \E resp \in Responses : FetchResolve(r, resp)
    \/ \E r \in Runs : ErrorBlock(r)
    \/ \E r \in Runs : ErrorText(r)
    \/ \E r \in Runs : FetchReject(r)
    \/ \E r \in Runs : \E c \in ChunkIds : ServerEmit(r, c)
    \/ \E r \in Runs : ServerClose(r)
    \/ \E r \in Runs : \E k \in 1..Len(buffer[r]) : ReadValue(r, k)
    \/ \E r \in Runs : ReadDone(r)
    \/ \E r \in Runs : ReadReject(r)
    \/ \E r \in Runs : NextLine(r)
    \/ \E r \in Runs : NextPart(r)
    \/ \E r \in Runs : AddSlideAppend(r)
    \/ \E r \in Runs : AddSlideDone(r)
    \/ \E o \in {"started", "threw"} : DownloadClick(o)
    \/ \E j \in DOMAIN jobs : html2canvasResolve(j)
    \/ \E j \in DOMAIN jobs : html2canvasReject(j)
    \/ \E j \in DOMAIN jobs : DownloadSettle(j)

\* The user starts an explanation only when none is in progress.
NextSolo ==
    \/ \E v \in InputTexts : TypeInput(v)
    \/ (\A q \in Runs : Free(q)) /\ KeydownEnter
    \/ (\A q \in Runs : Free(q)) /\ \E e \in Examples : ExampleClick(e)
    \/ \E r \in Runs : AfterParse(r)
    \/ \E r \in Runs : \E resp \in Responses : FetchResolve(r, resp)
    \/ \E r \in Runs : ErrorBlock(r)
    \/ \E r \in Runs : ErrorText(r)
    \/ \E r \in Runs : FetchReject(r)
    \/ \E r \in Runs : \E c \in ChunkIds : ServerEmit(r, c)
    \/ \E r \in Runs : ServerClose(r)
    \/ \E r \in Runs : \E k \in 1..Len(buffer[r]) : ReadValue(r, k)
    \/ \E r \in Runs : ReadDone(r)
    \/ \E r \in Runs : ReadReject(r)
    \/ \E r \in Runs : NextLine(r)
    \/ \E r \in Runs : NextPart(r)
    \/ \E r \in Runs : AddSlideAppend(r)
    \/ \E r \in Runs : AddSlideDone(r)
    \/ \E o \in {"started", "threw"} : DownloadClick(o)
    \/ \E j \in DOMAIN jobs : html2canvasResolve(j)
    \/ \E j \in DOMAIN jobs : html2canvasReject(j)
    \/ \E j \in DOMAIN jobs : DownloadSettle(j)

NextProxy ==
    \/ \E m \in Methods : \E b \in Bodies : Receive(m, b)
    \/ BodyRead
    \/ \E o \in {"stream", "ApiError", "string"} : ModelStart(o)
    \/ \E c \in ChunkIds : ModelYield(c)
    \/ ModelFinish
    \/ ModelThrow

\* The client with overlapping invocations of generate().
Spec == Init /\ [][Next]_vars
\* The client with one invocation after the other.
SpecSolo == InitSolo /\ [][NextSolo]_vars
\* The proxy.
SpecProxy == Init /\ [][NextProxy]_vars

\* ------------------------------------------------------------ claims
\* The concatenation of the text of the parts ps.
RECURSIVE TextOf(_)
TextOf(ps) == IF ps = <<>> THEN <<>> ELSE PartText(Head(ps)) \o TextOf(Tail(ps))

\* The image made from the most recent image part among ps, NoImg if none.
RECURSIVE LastImage(_)
LastImage(ps) ==
    IF ps = <<>> THEN NoImg
    ELSE IF PartData(ps[Len(ps)]) # <<>> THEN makeImg(ps[Len(ps)])
         ELSE LastImage(SubSeq(ps, 1, Len(ps) - 1))

\* The slides a sequence of parts calls for: going through ps in order with
\* `since`, the parts since the previous slide, a slide is due right after
\* the first part at which the text since the previous slide is non-empty
\* and an image is held; it takes all that text and the most recent image.
RECURSIVE SlidesDue(_, _, _)
SlidesDue(ps, since, slides) ==
    IF ps = <<>> THEN [slides |-> slides, since |-> since]
    ELSE LET s2 == Append(since, Head(ps))
         IN  IF TextOf(s2) # <<>> /\ LastImage(s2) # NoImg
             THEN SlidesDue(Tail(ps), <<>>,
                            Append(slides, [caption |-> marked_parse(TextOf(s2)),
                                            image |-> LastImage(s2)]))
             ELSE SlidesDue(Tail(ps), s2, slides)

\* C1: within one invocation, a slide is appended right after a part exactly
\* when the accumulated text is non-empty and an image is held; its caption
\* is all the text received since the previous slide, in order, and its
\* image the most recent one of that interval; text and image are then
\* reset.  (While addSlide is awaited the slide of the last part is the one
\* being appended, or just appended, and text and image are still held.)
C1_SlidePerTextAndImage ==
    \A r \in Runs :
        LET due == SlidesDue(log[r], <<>>, <<>>)
            slide == [caption |-> marked_parse(text[r]), image |-> img[r]]
        IN  IF pc[r] \in {"slide", "added"}
            THEN /\ due.slides = (IF pc[r] = "slide" THEN Append(emitted[r], slide)
                                  ELSE emitted[r])
                 /\ pc[r] = "added" => emitted[r][Len(emitted[r])] = slide
                 /\ due.since = <<>>
                 /\ text[r] # <<>>
                 /\ img[r] # NoImg
            ELSE /\ emitted[r] = due.slides
                 /\ text[r] = TextOf(due.since)
                 /\ img[r] = LastImage(due.since)

C1_Witness ==
    \E r \in Runs :
        /\ log[r] = <<"iX", "tA", "iY", "tB">>
        /\ pc[r] = "read"
        /\ emitted[r] = <<[caption |-> <<"<p>", "a", "</p>">>, image |-> makeImg("iX")],
                          [caption |-> <<"<p>", "b", "</p>">>, image |-> makeImg("iY")]>>
        /\ text[r] = <<>>
        /\ img[r] = NoImg

\* C2: at most one invocation of generate() is in progress at any moment.
C2_OneRunAtATime == Cardinality({r \in Runs : Running(r)}) <= 1

\* The parts the client processes when a read delivers exactly the one
\* whole event of chunk c.
RECURSIVE upToThrow(_)
upToThrow(items) ==
    IF items = <<>> \/ Head(items) = THROW THEN <<>>
    ELSE <<Head(items)>> \o upToThrow(Tail(items))

PartsOfWholeEvent(c) ==
    LET ls == linesOf(sse(c))
        j == JSON_parse(replaceData(ls[1]))
    IN  IF ls # <<>> /\ j.ok THEN upToThrow(itemsOfChunk(j.chunk)) ELSE <<>>

RECURSIVE PartsOfWholeEvents(_)
PartsOfWholeEvents(cs) ==
    IF cs = <<>> THEN <<>>
    ELSE PartsOfWholeEvent(Head(cs)) \o PartsOfWholeEvents(Tail(cs))

\* C3: however the bytes of the stream are divided between reads, once the
\* stream has been read to its end the slides of the invocation are those
\* obtained when each read delivers exactly one whole event.
C3_SlidesIndependentOfReads ==
    \A r \in Runs :
        (pc[r] = "read" /\ closed[r] /\ buffer[r] = <<>>)
            => emitted[r] = SlidesDue(PartsOfWholeEvents(sent[r]), <<>>, <<>>).slides

\* The body the claim calls for: one `data: <JSON of chunk>\n\n` event per
\* chunk, in the order of the chunks.
RECURSIVE EventPerChunk(_)
EventPerChunk(cs) ==
    IF cs = <<>> THEN <<>>
    ELSE DATA \o << <<"{", Head(cs)>>, <<"}", Head(cs)>>, NL, NL>> \o EventPerChunk(Tail(cs))

\* C4: the response body of a streaming answer is exactly one event per
\* chunk the model stream has yielded, in the order they were yielded, while
\* streaming and when the stream is closed after the last chunk.
C4_OneEventPerChunk ==
    (p_pc \in {"streaming", "closed"}) => p_body = EventPerChunk(p_yielded)

C4_Witness ==
    /\ p_pc = "closed"
    /\ Len(p_yielded) = 3
    /\ p_yielded[1] # p_yielded[2]
    /\ p_yielded[2] # p_yielded[3]

\* C5: the slideshow only changes by one slide being appended at its end,
\* which leaves the slides present and their order as they are, or by
\* being emptied at the start of an invocation of generate().
C5_SlidesOnlyAppendedOrCleared ==
    [][\/ slideshow' = slideshow
       \/ /\ Len(slideshow') = Len(slideshow) + 1
          /\ SubSeq(slideshow', 1, Len(slideshow)) = slideshow
       \/ /\ slideshow' = <<>>
          /\ \E r \in Runs : pc[r] = "idle" /\ pc'[r] = "parse"]_vars

C5_Witness ==
    /\ Len(slideshow) = 2
    /\ slideshow[1] # slideshow[2]
    /\ \E r, q \in Runs : r # q /\ slideshow = emitted[r] \o emitted[q]

\* C6: when an invocation of generate() ends, the actions area holds a
\* download button exactly if the slideshow holds a slide, and at most one.
C6_ButtonIffSlides ==
    [][\A r \in Runs :
          (pc[r] # "idle" /\ pc'[r] = "idle")
              => /\ (actions' > 0) <=> (Len(slideshow') > 0)
                 /\ actions' <= 1]_vars

\* C7: any method but POST is answered 405 and a POST without a message
\* 400, both without a call of generateContentStream; a failure reading the
\* body or starting the model call is answered 500 with a JSON error body;
\* a streaming 200 is only given to a POST with a message whose model call
\* started.
C7_ErrorsAsStatusCodes ==
    /\ (p_req.method \notin {"", "POST"})
          => p_resp.status = 405 /\ p_modelCalls = 0
    /\ (p_req.method = "POST" /\ p_req.body \in {"nomsg", "empty"})
          => /\ p_modelCalls = 0
             /\ p_pc # "json" => p_resp.status = 400
    /\ (p_req.method = "POST" /\ p_req.body \in {"invalid", "null"} /\ p_pc # "json")
          => /\ p_resp.status = 500
             /\ p_resp.kind = "json"
             /\ p_resp.msg # ""
             /\ p_modelCalls = 0
    /\ (p_pc = "done" /\ p_modelCalls > 0)
          => p_resp.status = 500 /\ p_resp.kind = "json" /\ p_resp.msg # ""
    /\ (p_resp.status = 200)
          => /\ p_req.method = "POST"
             /\ p_req.body = "msg"
             /\ p_modelCalls = 1
             /\ p_resp.kind = "stream"
             /\ p_pc \in {"streaming", "closed", "errored"}
    /\ p_pc \in {"done", "streaming", "closed", "errored"} => p_resp # NoResponse

C7_Witness ==
    /\ p_pc = "done"
    /\ p_req = [method |-> "POST", body |-> "empty"]
    /\ p_resp = Resp400
    /\ p_modelCalls = 0

\* The message the claim calls for after a response that is not ok.
ClaimedMessage(resp) ==
    IF resp.kind = "json" /\ resp.msg # "" THEN Msg(resp.msg)
    ELSE IF resp.kind # "json" /\ resp.raw # "" THEN Msg(resp.raw)
         ELSE defaultMessage(resp)

\* C8: after a response that is not ok the error shown is error.message of
\* a JSON body, else the raw text of a non-empty body that is not JSON,
\* else the status line; no slide is rendered and no button added.
C8_ErrorMessageFromResponse ==
    [][\A r \in Runs :
          (pc[r] \in {"json", "text"} /\ pc'[r] = "idle")
              => /\ errorText' = errorTextOf(ClaimedMessage(response[r]))
                 /\ errorHidden' = FALSE
                 /\ slideshow' = slideshow
                 /\ actions' = actions]_vars

\* C9: an event that cannot be processed (a payload that is not JSON, a
\* chunk without candidates, a candidate without content) is skipped: the
\* error shown and the slides stay as they are, the lines left of the same
\* read and the text not yet read are kept, the loop goes on; and an
\* invocation never ends, nor shows an error, from inside the loops.
C9_BadEventSkipped ==
    [][\A r \in Runs :
          LET badLine == /\ pc[r] = "line"
                         /\ lines[r] # <<>>
                         /\ ~JSON_parse(replaceData(Head(lines[r]))).ok
              badChunk == /\ pc[r] = "part"
                          /\ work[r] # <<>>
                          /\ Head(work[r]) = THROW
              stepOfRun == \/ pc'[r] # pc[r]
                           \/ lines'[r] # lines[r]
                           \/ work'[r] # work[r]
          IN  /\ ((badLine \/ badChunk) /\ stepOfRun)
                    => /\ errorText' = errorText
                       /\ errorHidden' = errorHidden
                       /\ slideshow' = slideshow
                       /\ emitted'[r] = emitted[r]
                       /\ lines'[r] = (IF badLine THEN Tail(lines[r]) ELSE lines[r])
                       /\ buffer'[r] = buffer[r]
                       /\ closed'[r] = closed[r]
                       /\ pc'[r] = (IF lines'[r] # <<>> THEN "line" ELSE "read")
              /\ (pc[r] \in {"line", "part", "slide", "added"} /\ stepOfRun)
                    => /\ pc'[r] # "idle"
                       /\ errorText' = errorText
                       /\ errorHidden' = errorHidden]_vars

C9_Witness ==
    \E r \in Runs :
        /\ sent[r] = <<"none", "tBnc", "tAiX">>
        /\ consoleErrors[r] = 2
        /\ log[r] = <<"tB", "tA", "iX">>
        /\ Len(emitted[r]) = 1
        /\ pc[r] = "read"
        /\ closed[r]
        /\ buffer[r] = <<>>
        /\ errorHidden

\* The text of the captions of slides, one after the other.
RECURSIVE CaptionText(_)
CaptionText(slides) ==
    IF slides = <<>> THEN <<>>
    ELSE SubSeq(Head(slides).caption, 2, Len(Head(slides).caption) - 1)
             \o CaptionText(Tail(slides))

ImageParts(ps) == {k \in DOMAIN ps : PartText(ps[k]) = <<>> /\ PartData(ps[k]) # <<>>}
TextParts(ps) == {k \in DOMAIN ps : PartText(ps[k]) # <<>>}

\* C10: within one invocation, between two processed parts, the captions
\* of the slides it has emitted followed by the pending text are the text
\* of all the parts it has processed, in order (inside the processing of a
\* part, when its slide is appended and the text not yet reset, the
\* captions alone are that text); and its slides are no more than the image
\* parts and no more than the non-empty text parts it has processed.
C10_CaptionTextConserved ==
    \A r \in Runs :
        /\ pc[r] # "added" => CaptionText(emitted[r]) \o text[r] = TextOf(log[r])
        /\ pc[r] = "added" => CaptionText(emitted[r]) = TextOf(log[r])
        /\ Len(emitted[r]) <= Cardinality(ImageParts(log[r]))
        /\ Len(emitted[r]) <= Cardinality(TextParts(log[r]))

C10_Witness ==
    \E r \in Runs :
        /\ Len(emitted[r]) = 2
        /\ text[r] = <<"a">>
        /\ TextOf(log[r]) = <<"a", "b", "a">>
====
